---- MODULE Spec2Model ----
(***************************************************************************)
(* Session multiplexer of owaiken/backend (src/server.js): the registry    *)
(* `containers`, the per-session connection set, file cache and process    *)
(* map, the broadcast fan-out, the file endpoints, the execute endpoint    *)
(* with its process callbacks, and the idle-cleanup timers.                *)
(*                                                                         *)
(* Node runs every handler to completion on one thread, so each handler    *)
(* (a WebSocket event, an HTTP request, a child-process callback, a timer) *)
(* is one action.  Paths are sequences of segments; "/" is <<>>.           *)
(* Date.now() timestamps carried by events are not modelled.               *)
(***************************************************************************)
EXTENDS Integers, Sequences, FiniteSets, TLC

\* ------------------------------------------------------------------ bounds
\* One clock step, in milliseconds.
TickMs == 150000
\* Events a connection may hold before the model stops sending to anyone.
MaxInbox == 3

\* -------------------------------------------------------- program constants
\* setTimeout(..., 300000) of the close handler.
Grace == 300000

\* ------------------------------------------------------------ input domains
Root == <<"data">>
W1 == <<"w1">>
W2 == <<"w2">>
WUp == <<"..">>
\* Workspace ids a caller may supply (already split at "/").
IDS == {W1, W2, WUp}
\* A missing or empty previewId / path.
None == <<>>
\* WebSocket objects; each connects at most once.
WS == {"c1", "c2"}
\* Process ids handed out by uuidv4(), in this order.
PIDS == {"p1", "p2"}
PidOrder == <<"p1", "p2">>
\* Caller-supplied relative paths.
PATHS == {<<"a">>, <<"..", "w2", "a">>}
\* Relative paths inside one workspace: a file, a directory and a file in it.
FPATHS == {<<"a">>, <<"d">>, <<"d", "f">>}
CONTENTS == {"x", "y"}
\* The content of a request body that has no content field.
Undefined == "<undefined>"
CMDS == {"/bin/jsh", "echo"}
\* A missing command.
NoCmd == ""
ARGS == {<<"--osc", "-l">>}
\* Argument lists with a shell-specific flag between others, and with an
\* argument that holds a space.
ARGV == {<<"-l", "--osc", "-n">>, <<"a b", "-n">>}
STREAMS == {"stdout", "stderr"}
\* The chunks a child process writes, in order, to whichever stream it picks.
Script == <<"o1", "o2">>
EXITS == {0, 1}
\* The exit code Node reports for a child that a signal ended: null.
Null == -1
\* terminal-resize geometry and the unset environment value.
GEOM == {"80"}
Unset == ""

VARIABLES
  containers,  \* the registry: id -> index into heap, 0 when absent
  heap,        \* every session object ever built by createContainer
  ws,          \* WebSocket -> [state, id]
  inbox,       \* WebSocket -> the messages sent to it and not yet taken by its client, in order
  timers,      \* pending cleanup timers, in arming order: [id, left]
  procs,       \* process id -> child process record
  fsFiles,     \* storage: full path -> content, for every existing file
  fsDirs,      \* storage: the existing directories
  env,         \* process.env COLUMNS / LINES of the server
  idle,        \* id -> ms since its connection count dropped to zero, -1 if not idle
  lastOp       \* the handler of the server that ran last, and its outcome

vars == <<containers, heap, ws, inbox, timers, procs, fsFiles, fsDirs, env, idle, lastOp>>

\* ------------------------------------------------------------------ helpers
Range(s) == {s[i] : i \in 1..Len(s)}

Min(a, b) == IF a < b THEN a ELSE b

Max(a, b) == IF a > b THEN a ELSE b

RECURSIVE NormFrom(_, _)
\* path.normalize of an absolute path: ".." pops (never above "/"), "." and "" vanish.
NormFrom(acc, rest) ==
  IF rest = <<>> THEN acc
  ELSE LET s == Head(rest) IN
       IF s = ".." THEN NormFrom(IF acc = <<>> THEN <<>> ELSE SubSeq(acc, 1, Len(acc) - 1), Tail(rest))
       ELSE IF s = "." \/ s = "" THEN NormFrom(acc, Tail(rest))
       ELSE NormFrom(Append(acc, s), Tail(rest))

\* path.join(base, rel) for an absolute base.
Join(base, rel) == NormFrom(<<>>, base \o rel)

\* path.dirname of a normalized absolute path.
Dirname(p) == IF p = <<>> THEN <<>> ELSE SubSeq(p, 1, Len(p) - 1)

Prefixes(p) == {SubSeq(p, 1, n) : n \in 0..Len(p)}

IsPrefix(p, q) == Len(p) <= Len(q) /\ SubSeq(q, 1, Len(p)) = p

\* p lies in the directory d or below it (d itself included).
Under(d, p) == IsPrefix(d, p)

\* p is a strict descendant of d.
StrictlyUnder(d, p) == IsPrefix(d, p) /\ Len(p) > Len(d)

\* fs.existsSync
Exists(files, dirs, p) == p \in DOMAIN files \/ p \in dirs

\* A recursive mkdir that never fails.
MkdirPOkAlways(files, p) == TRUE

\* fs.mkdirSync(p, {recursive: true}) succeeds unless a component is a file.
MkdirPOk(files, p) == \A q \in Prefixes(p) : q \notin DOMAIN files

MkdirP(dirs, p) == dirs \cup Prefixes(p)

\* The part of storage lying in directory d or below it.
FilesUnder(files, d) == [p \in {q \in DOMAIN files : Under(d, q)} |-> files[p]]

DirsUnder(dirs, d) == {q \in dirs : Under(d, q)}

\* A function with key k removed / set.
Drop(f, k) == [x \in DOMAIN f \ {k} |-> f[x]]

Put(f, k, v) == [x \in DOMAIN f \cup {k} |-> IF x = k THEN v ELSE f[x]]

EmptyMap == [x \in {} |-> 0]
\* ------------------------------------------------------------------- state
Registered(id) == containers[id] # 0

\* The session containers.get(id) returns; only used when Registered(id).
Reg(id) == heap[containers[id]]

\* function createContainer(previewId): the object it returns.
createContainer(id) ==
  [id |-> id, dir |-> Join(Root, id), clients |-> <<>>, files |-> EmptyMap, processes |-> {}]

\* A lookup that never finds the session.
NeedCreateAlways(id) == TRUE

\* if (!container): the lookup misses and a session has to be built.
NeedCreate(id) == containers[id] = 0

\* let container = containers.get(id); if (!container) { container =
\* createContainer(id); containers.set(id, container); }  The registry, heap
\* and directories after it, the session's index, and whether mkdirSync threw.
GetOrCreate(id) ==
  IF ~NeedCreate(id)
    THEN [reg |-> containers, hp |-> heap, dirs |-> fsDirs, at |-> containers[id], ok |-> TRUE]
  ELSE IF ~MkdirPOk(fsFiles, Join(Root, id))
    THEN [reg |-> containers, hp |-> heap, dirs |-> fsDirs, at |-> 0, ok |-> FALSE]
  ELSE [reg |-> [containers EXCEPT ![id] = Len(heap) + 1],
        hp |-> Append(heap, createContainer(id)),
        dirs |-> MkdirP(fsDirs, Join(Root, id)),
        at |-> Len(heap) + 1, ok |-> TRUE]

\* ---------------------------------------------------------------- messages
KeyOrder == <<"type", "error", "previewId", "processId", "path", "url", "output",
              "stream", "exitCode", "stdout", "stderr">>

\* JSON.stringify(data): the key/value pairs of the object, in the order the
\* object literal lists them.
Stringify(data) ==
  LET keys == SelectSeq(KeyOrder, LAMBDA k : k \in DOMAIN data)
  IN  [i \in 1..Len(keys) |-> <<keys[i], data[keys[i]]>>]

\* The value a serialized message carries under key k, <<>> when it has none.
Field(msg, k) ==
  LET at == {i \in 1..Len(msg) : msg[i][1] = k}
  IN  IF at = {} THEN <<>> ELSE msg[CHOOSE i \in at : TRUE][2]

\* A broadcast that does not look at readyState.
IsOpenAlways(c) == TRUE

\* client.readyState === WebSocket.OPEN
IsOpen(c) == ws[c].state = "open"

\* A transport that hands every message over twice.
SendTwice(inb, c, msg) == [inb EXCEPT ![c] = Append(Append(@, msg), msg)]

\* A transport that puts the newest message first.
SendFront(inb, c, msg) == [inb EXCEPT ![c] = <<msg>> \o @]

\* client.send(message): the message joins the end of what c was sent.
Send(inb, c, msg) == [inb EXCEPT ![c] = Append(@, msg)]

\* A broadcast that stops after the first connection of the set.
SendFirstOnly(inb, clients, msg) ==
  IF clients # <<>> /\ IsOpen(Head(clients)) THEN Send(inb, Head(clients), msg) ELSE inb

RECURSIVE SendAll(_, _, _)
\* for (const client of container.clients) if open then client.send(message)
SendAll(inb, clients, msg) ==
  IF clients = <<>> THEN inb
  ELSE SendAll(IF IsOpen(Head(clients)) THEN Send(inb, Head(clients), msg) ELSE inb,
               Tail(clients), msg)

\* function broadcastToContainer(previewId, data), on registry reg and heap hp.
broadcastToContainer(reg, hp, inb, id, data) ==
  IF reg[id] = 0 THEN inb
  ELSE SendAll(inb, hp[reg[id]].clients, Stringify(data))

\* The model sends only while every connection can take n more messages.
Room(n) == \A c \in WS : Len(inbox[c]) + n <= MaxInbox

Op(op, id, status, res) == [op |-> op, id |-> id, status |-> status, res |-> res]

\* -------------------------------------------------------------------- Init
Init ==
  /\ containers = [id \in IDS |-> 0]
  /\ heap = <<>>
  /\ ws = [c \in WS |-> [state |-> "new", id |-> None]]
  /\ inbox = [c \in WS |-> <<>>]
  /\ timers = <<>>
  /\ procs = [p \in PIDS |-> [state |-> "none"]]
  /\ fsFiles = EmptyMap
  /\ fsDirs = {<<>>, Root}
  /\ env = [COLUMNS |-> Unset, LINES |-> Unset]
  /\ idle = [id \in IDS |-> -1]
  /\ lastOp = Op("init", None, 0, "")

\* ------------------------------------------------------- connection handler
\* wss.on('connection') with a missing previewId: ws.close(); return.
AttachNoId(c) ==
  /\ ws[c].state = "new"
  /\ ws' = [ws EXCEPT ![c] = [state |-> "closed", id |-> None]]
  /\ lastOp' = Op("attach", None, 0, "")
  /\ UNCHANGED <<containers, heap, inbox, timers, procs, fsFiles, fsDirs, env, idle>>

\* wss.on('connection'): get or create, clients.add(ws), acknowledge.
Attach(c, id) ==
  /\ ws[c].state = "new"
  /\ Room(1)
  /\ LET g == GetOrCreate(id) IN
     /\ g.ok
     /\ containers' = g.reg
     /\ heap' = [g.hp EXCEPT ![g.at].clients = Append(@, c)]
     /\ fsDirs' = g.dirs
  /\ ws' = [ws EXCEPT ![c] = [state |-> "open", id |-> id]]
  /\ inbox' = Send(inbox, c, Stringify([type |-> "connection-established", previewId |-> id]))
  /\ idle' = [idle EXCEPT ![id] = -1]
  /\ lastOp' = Op("attach", id, 0, "")
  /\ UNCHANGED <<timers, procs, fsFiles, env>>

\* The transport closes: readyState leaves OPEN; the 'close' event is queued.
TransportClose(c) ==
  /\ ws[c].state = "open"
  /\ ws' = [ws EXCEPT ![c].state = "closing"]
  /\ UNCHANGED <<containers, heap, inbox, timers, procs, fsFiles, fsDirs, env, idle, lastOp>>

\* A close handler that takes nobody out of the set.
WithoutNobody(s, c) == s

\* container.clients.delete(ws)
Without(s, c) == SelectSeq(s, LAMBDA x : x # c)

\* A close handler that schedules the cleanup twice.
ArmTimerTwice(q, id) == q \o <<[id |-> id, left |-> Grace], [id |-> id, left |-> Grace]>>

\* A close handler that schedules nothing.
ArmTimerNever(q, id) == q

\* setTimeout(() => {...}, 300000): one more pending timer for id.
ArmTimer(q, id) == Append(q, [id |-> id, left |-> Grace])

\* ws.on('close'): leave the session; arm the cleanup timer when it is empty.
OnClose(c) ==
  LET id == ws[c].id IN
  /\ ws[c].state = "closing"
  /\ ws' = [ws EXCEPT ![c].state = "closed"]
  /\ IF Registered(id)
       THEN LET left == Without(Reg(id).clients, c) IN
            /\ heap' = [heap EXCEPT ![containers[id]].clients = left]
            /\ timers' = IF left = <<>> THEN ArmTimer(timers, id) ELSE timers
            /\ idle' = IF left = <<>> THEN [idle EXCEPT ![id] = 0] ELSE idle
            /\ lastOp' = Op("close", id, IF left = <<>> THEN 1 ELSE 0, "")
       ELSE /\ UNCHANGED <<heap, timers, idle>>
            /\ lastOp' = Op("close", id, -1, "")
  /\ UNCHANGED <<containers, inbox, procs, fsFiles, fsDirs, env>>

\* ------------------------------------------------------------- idle cleanup
\* A timer callback that does not look at the connection count again.
SweepCheckNoRecheck(id) == Registered(id)

\* A timer callback that lets a session with a single connection go.
SweepCheckLastOnly(id) == Registered(id) /\ Len(Reg(id).clients) <= 1

\* if (containers.get(previewId)?.clients.size === 0)
SweepCheck(id) == Registered(id) /\ Reg(id).clients = <<>>

\* A cleanup that also deletes the workspace's files from storage.
SweepFilesToo(id) ==
  [q \in {r \in DOMAIN fsFiles : ~Under(Join(Root, id), r)} |-> fsFiles[q]]

\* What the timer callback does to the workspace's stored files: nothing.
SweepFiles(id) == fsFiles

\* The timer callback: containers.delete(previewId) when the re-check passes.
IdleTimer ==
  /\ timers # <<>>
  /\ Head(timers).left = 0
  /\ LET id == Head(timers).id IN
     /\ containers' = IF SweepCheck(id) THEN [containers EXCEPT ![id] = 0] ELSE containers
     /\ fsFiles' = SweepFiles(id)
     /\ lastOp' = Op("idle-timer", id, IF SweepCheck(id) THEN 1 ELSE 0, "")
  /\ timers' = Tail(timers)
  /\ UNCHANGED <<heap, ws, inbox, procs, fsDirs, env, idle>>

\* Time passes by one step, never past a timer that is due.
Tick ==
  /\ timers # <<>>
  /\ \A i \in 1..Len(timers) : timers[i].left > 0
  /\ timers' = [i \in 1..Len(timers) |-> [timers[i] EXCEPT !.left = Max(0, @ - TickMs)]]
  /\ idle' = [id \in IDS |-> IF idle[id] < 0 THEN idle[id] ELSE Min(Grace, idle[id] + TickMs)]
  /\ UNCHANGED <<containers, heap, ws, inbox, procs, fsFiles, fsDirs, env, lastOp>>

\* -------------------------------------------------------------- file store
\* A cache that keeps the entry it already has for a path.
CacheSetStale(hp, at, p, content) ==
  IF p \in DOMAIN hp[at].files THEN hp ELSE [hp EXCEPT ![at].files = Put(@, p, content)]

\* A cache that is never filled.
CacheSetNothing(hp, at, p, content) == hp

\* A cache from which nothing is evicted.
CacheDeleteNothing(hp, at, p) == hp

\* The session with file path p cached as content / evicted.
CacheSet(hp, at, p, content) == [hp EXCEPT ![at].files = Put(@, p, content)]

CacheDelete(hp, at, p) == [hp EXCEPT ![at].files = Drop(@, p)]

\* A write handler that yields between its storage update and its cache
\* update: one step stores the content, a later step caches and announces it.
WriteTorn(id, p, content) ==
  /\ p # None
  /\ Registered(id)
  /\ Room(1)
  /\ LET target == Join(Reg(id).dir, p) IN
     /\ MkdirPOk(fsFiles, Dirname(target))
     /\ target \notin fsDirs
     /\ IF target \notin DOMAIN fsFiles \/ fsFiles[target] # content
          THEN /\ fsFiles' = Put(fsFiles, target, content)
               /\ fsDirs' = MkdirP(fsDirs, Dirname(target))
               /\ lastOp' = Op("write", id, 102, "")
               /\ UNCHANGED <<heap, inbox>>
          ELSE /\ heap' = CacheSet(heap, containers[id], p, content)
               /\ inbox' = broadcastToContainer(containers, heap, inbox, id,
                              [type |-> "file-change", previewId |-> id, path |-> p])
               /\ lastOp' = Op("write", id, 200, "")
               /\ UNCHANGED <<fsFiles, fsDirs>>
  /\ UNCHANGED <<containers, ws, timers, procs, env, idle>>

\* A write handler that looks the session up, building it when it is
\* missing, before it validates the request.
WriteLookupFirst(id, p, content) ==
  /\ Room(1)
  /\ LET g == GetOrCreate(id) IN
     /\ containers' = g.reg
     /\ heap' = g.hp
     /\ fsDirs' = g.dirs
  /\ lastOp' = Op("write", id, IF p = None \/ content = Undefined THEN 400 ELSE 500, "")
  /\ UNCHANGED <<ws, inbox, timers, procs, fsFiles, env, idle>>

\* app.post('/api/files/write/:previewId')
Write(id, p, content) ==
  /\ Room(1)
  /\ IF p = None \/ content = Undefined
       THEN /\ lastOp' = Op("write", id, 400, "")
            /\ UNCHANGED <<containers, heap, inbox, fsFiles, fsDirs>>
     ELSE LET g == GetOrCreate(id) IN
       IF ~g.ok
         THEN /\ lastOp' = Op("write", id, 500, "")
              /\ UNCHANGED <<containers, heap, inbox, fsFiles, fsDirs>>
       ELSE LET target == Join(g.hp[g.at].dir, p)
                dirPath == Dirname(target)
                dirs == IF MkdirPOk(fsFiles, dirPath) THEN MkdirP(g.dirs, dirPath) ELSE g.dirs
                ok == MkdirPOk(fsFiles, dirPath) /\ target \notin dirs
            IN  /\ containers' = g.reg
                /\ fsDirs' = dirs
                /\ fsFiles' = IF ok THEN Put(fsFiles, target, content) ELSE fsFiles
                /\ heap' = IF ok THEN CacheSet(g.hp, g.at, p, content) ELSE g.hp
                /\ inbox' = IF ok
                              THEN broadcastToContainer(g.reg, g.hp, inbox, id,
                                     [type |-> "file-change", previewId |-> id, path |-> p])
                              ELSE inbox
                /\ lastOp' = Op("write", id, IF ok THEN 200 ELSE 500, "")
  /\ UNCHANGED <<ws, timers, procs, env, idle>>

\* fs.mkdirSync(target, {recursive}) succeeds.
MkdirOk(files, dirs, target, recursive) ==
  IF recursive THEN MkdirPOk(files, target)
  ELSE ~Exists(files, dirs, target) /\ Dirname(target) \in dirs

\* app.post('/api/files/mkdir/:previewId')
Mkdir(id, p, recursive) ==
  /\ IF p = None
       THEN /\ lastOp' = Op("mkdir", id, 400, "")
            /\ UNCHANGED <<containers, heap, fsDirs>>
     ELSE LET g == GetOrCreate(id) IN
       IF ~g.ok
         THEN /\ lastOp' = Op("mkdir", id, 500, "")
              /\ UNCHANGED <<containers, heap, fsDirs>>
       ELSE LET target == Join(g.hp[g.at].dir, p)
                ok == MkdirOk(fsFiles, g.dirs, target, recursive)
            IN  /\ containers' = g.reg
                /\ heap' = g.hp
                /\ fsDirs' = IF ok THEN MkdirP(g.dirs, target) ELSE g.dirs
                /\ lastOp' = Op("mkdir", id, IF ok THEN 200 ELSE 500, "")
  /\ UNCHANGED <<ws, inbox, timers, procs, fsFiles, env, idle>>

\* app.get('/api/files/read/:previewId')
Read(id, p) ==
  /\ IF p = None
       THEN /\ lastOp' = Op("read", id, 400, "")
            /\ UNCHANGED heap
     ELSE IF ~Registered(id)
       THEN /\ lastOp' = Op("read", id, 404, "")
            /\ UNCHANGED heap
     ELSE IF p \in DOMAIN Reg(id).files
       THEN /\ lastOp' = Op("read", id, 200, Reg(id).files[p])
            /\ UNCHANGED heap
     ELSE LET target == Join(Reg(id).dir, p) IN
       IF target \in DOMAIN fsFiles
         THEN /\ heap' = CacheSet(heap, containers[id], p, fsFiles[target])
              /\ lastOp' = Op("read", id, 200, fsFiles[target])
       ELSE \* readFileSync of a directory throws; a missing file is 404
            /\ lastOp' = Op("read", id, IF target \in fsDirs THEN 500 ELSE 404, "")
            /\ UNCHANGED heap
  /\ UNCHANGED <<containers, ws, inbox, timers, procs, fsFiles, fsDirs, env, idle>>

\* A directory listing that builds the session when the lookup misses.
ReaddirCreating(id, p) ==
  /\ p # None
  /\ LET g == GetOrCreate(id) IN
     /\ g.ok
     /\ containers' = g.reg
     /\ heap' = g.hp
     /\ fsDirs' = g.dirs
     /\ lastOp' = Op("readdir", id, 200, "")
  /\ UNCHANGED <<ws, inbox, timers, procs, fsFiles, env, idle>>

\* app.get('/api/files/readdir/:previewId'); the listing itself is not recorded.
Readdir(id, p) ==
  /\ IF p = None
       THEN lastOp' = Op("readdir", id, 400, "")
     ELSE IF ~Registered(id)
       THEN lastOp' = Op("readdir", id, 404, "")
     ELSE LET target == Join(Reg(id).dir, p) IN
       IF ~Exists(fsFiles, fsDirs, target)
         THEN lastOp' = Op("readdir", id, 404, "")
       ELSE \* readdirSync of a file throws
            lastOp' = Op("readdir", id, IF target \in fsDirs THEN 200 ELSE 500, "")
  /\ UNCHANGED <<containers, heap, ws, inbox, timers, procs, fsFiles, fsDirs, env, idle>>

\* app.get('/preview/:previewId'): index.html of the session, or a placeholder page.
Preview(id) ==
  /\ IF ~Registered(id)
       THEN lastOp' = Op("preview", id, 404, "")
     ELSE LET indexPath == Join(Reg(id).dir, <<"index.html">>) IN
       IF indexPath \in DOMAIN fsFiles
         THEN lastOp' = Op("preview", id, 200, fsFiles[indexPath])
       ELSE \* sendFile of a directory is answered 404; nothing there gives the placeholder
            lastOp' = Op("preview", id, IF indexPath \in fsDirs THEN 404 ELSE 200, "")
  /\ UNCHANGED <<containers, heap, ws, inbox, timers, procs, fsFiles, fsDirs, env, idle>>

\* app.get('/preview/:previewId/*'): a stored file of the session.
PreviewFile(id, p) ==
  /\ IF ~Registered(id)
       THEN lastOp' = Op("preview-file", id, 404, "")
     ELSE LET fullPath == Join(Reg(id).dir, p) IN
       IF fullPath \in DOMAIN fsFiles
         THEN lastOp' = Op("preview-file", id, 200, fsFiles[fullPath])
       ELSE lastOp' = Op("preview-file", id, 404, "")
  /\ UNCHANGED <<containers, heap, ws, inbox, timers, procs, fsFiles, fsDirs, env, idle>>

\* The entries strictly below directory d.
Below(files, dirs, d) ==
  {q \in DOMAIN files : StrictlyUnder(d, q)} \cup {q \in dirs : StrictlyUnder(d, q)}

\* app.post('/api/files/rm/:previewId')
Remove(id, p, recursive) ==
  /\ Room(1)
  /\ IF p = None
       THEN /\ lastOp' = Op("rm", id, 400, "")
            /\ UNCHANGED <<heap, inbox, fsFiles, fsDirs>>
     ELSE IF ~Registered(id)
       THEN /\ lastOp' = Op("rm", id, 404, "")
            /\ UNCHANGED <<heap, inbox, fsFiles, fsDirs>>
     ELSE LET target == Join(Reg(id).dir, p) IN
       IF ~Exists(fsFiles, fsDirs, target)
         THEN /\ lastOp' = Op("rm", id, 404, "")
              /\ UNCHANGED <<heap, inbox, fsFiles, fsDirs>>
       ELSE IF target \in fsDirs /\ ~recursive /\ Below(fsFiles, fsDirs, target) # {}
         THEN \* rmdirSync of a non-empty directory throws
              /\ lastOp' = Op("rm", id, 500, "")
              /\ UNCHANGED <<heap, inbox, fsFiles, fsDirs>>
       ELSE /\ fsFiles' = [q \in {r \in DOMAIN fsFiles : ~Under(target, r)} |-> fsFiles[q]]
            /\ fsDirs' = {q \in fsDirs : ~Under(target, q)}
            /\ heap' = CacheDelete(heap, containers[id], p)
            /\ inbox' = broadcastToContainer(containers, heap, inbox, id,
                          [type |-> "file-change", previewId |-> id, path |-> p])
            /\ lastOp' = Op("rm", id, 200, "")
  /\ UNCHANGED <<containers, ws, timers, procs, env, idle>>

\* ------------------------------------------------------- process supervisor
\* uuidv4(): an id no process has had.
FreshPid == PidOrder[CHOOSE i \in 1..Len(PidOrder) :
                       /\ procs[PidOrder[i]].state = "none"
                       /\ \A j \in 1..(i - 1) : procs[PidOrder[j]].state # "none"]

\* if (command === '/bin/jsh'): bash stands in and '--osc' is filtered out.
commandToExecute(cmd) == IF cmd = "/bin/jsh" THEN "/bin/bash" ELSE cmd

argsToUse(cmd, args) ==
  IF cmd = "/bin/jsh" THEN SelectSeq(args, LAMBDA a : a # "--osc") ELSE args

isInteractiveShell(cmd) == commandToExecute(cmd) = "/bin/bash"

\* The words /bin/sh splits an argument into when it stands unquoted in a
\* command line.
Words(a) == IF a = "a b" THEN <<"a", "b">> ELSE <<a>>

RECURSIVE ShellSplit(_)
\* exec(`${commandToExecute} ${argsToUse.join(' ')}`): the arguments are joined
\* with spaces into one command line, which the shell splits again.
ShellSplit(args) ==
  IF args = <<>> THEN <<>> ELSE Words(Head(args)) \o ShellSplit(Tail(args))

\* The argument vector the started program receives: spawn passes the list
\* as it is, exec goes through the shell.
Launched(cmd, args) ==
  IF isInteractiveShell(cmd) THEN argsToUse(cmd, args) ELSE ShellSplit(argsToUse(cmd, args))

\* app.post('/api/execute/:previewId'), with the default cwd '/'.
Execute(id, cmd, args, term) ==
  /\ \E p \in PIDS : procs[p].state = "none"
  /\ IF cmd = NoCmd
       THEN /\ lastOp' = Op("execute", id, 400, "")
            /\ UNCHANGED <<containers, heap, procs, fsDirs>>
     ELSE LET g == GetOrCreate(id) IN
       IF ~g.ok
         THEN /\ lastOp' = Op("execute", id, 500, "")
              /\ UNCHANGED <<containers, heap, procs, fsDirs>>
       ELSE LET workingDir == Join(g.hp[g.at].dir, <<>>)
                ok == MkdirPOk(fsFiles, workingDir)
                pid == FreshPid
            IN  /\ containers' = g.reg
                /\ fsDirs' = IF ok THEN MkdirP(g.dirs, workingDir) ELSE g.dirs
                /\ heap' = IF ok THEN [g.hp EXCEPT ![g.at].processes = @ \cup {pid}] ELSE g.hp
                /\ procs' = IF ok
                    THEN [procs EXCEPT ![pid] =
                           [state |-> "running", cont |-> g.at, id |-> id,
                            interactive |-> isInteractiveShell(cmd),
                            cmd |-> commandToExecute(cmd), args |-> argsToUse(cmd, args),
                            argv |-> Launched(cmd, args),
                            cols |-> IF term # Unset THEN term ELSE env.COLUMNS,
                            stdin |-> FALSE, so |-> <<>>, se |-> <<>>]]
                    ELSE procs
                /\ lastOp' = Op("execute", id, IF ok THEN 200 ELSE 500, IF ok THEN pid ELSE "")
  /\ UNCHANGED <<ws, inbox, timers, fsFiles, env, idle>>

Chunks(p) == Len(procs[p].so) + Len(procs[p].se)

\* A 'data' event of the child's stdout or stderr.  Two listeners are
\* registered on each stream (one in the spawn/exec branch, one after the
\* process is stored), and each broadcasts the chunk.
ProcOutput(p, stream) ==
  /\ procs[p].state = "running" \/ (procs[p].state = "exited" /\ procs[p].interactive)
  /\ Chunks(p) < Len(Script)
  /\ Room(2)
  /\ LET chunk == Script[Chunks(p) + 1]
         data == [type |-> "process-output", previewId |-> procs[p].id, processId |-> p,
                  output |-> chunk, stream |-> stream]
         once == broadcastToContainer(containers, heap, inbox, procs[p].id, data)
     IN  /\ inbox' = broadcastToContainer(containers, heap, once, procs[p].id, data)
         /\ procs' = IF stream = "stdout" THEN [procs EXCEPT ![p].so = Append(@, chunk)]
                     ELSE [procs EXCEPT ![p].se = Append(@, chunk)]
         /\ lastOp' = Op("output", procs[p].id, 0, p)
  /\ UNCHANGED <<containers, heap, ws, timers, fsFiles, fsDirs, env, idle>>

\* A completion that leaves the handle in the map.
DeleteProcessNever(hp, at, p) == hp

\* container.processes.delete(processId), on the session the request captured.
DeleteProcess(hp, at, p) == [hp EXCEPT ![at].processes = @ \ {p}]

\* The exitCode of process-completed: `code || 0` in the 'exit' handler of a
\* spawned shell, `error ? error.code : 0` in the exec callback, where error
\* is set when the child ended with a nonzero status or by a signal.
ExitCode(interactive, code) ==
  IF interactive THEN (IF code = Null \/ code = 0 THEN 0 ELSE code)
  ELSE IF code # 0 THEN code ELSE 0

\* childProcess.on('exit') of a spawned shell, or the exec callback: the
\* handle leaves the processes map of the session the request captured, and
\* process-completed is broadcast to the session registered under the id.
ProcExit(p, code) ==
  /\ procs[p].state = "running"
  /\ Room(1)
  /\ procs' = [procs EXCEPT ![p].state = "exited"]
  /\ heap' = DeleteProcess(heap, procs[p].cont, p)
  /\ inbox' = broadcastToContainer(containers, heap, inbox, procs[p].id,
                [type |-> "process-completed", previewId |-> procs[p].id, processId |-> p,
                 exitCode |-> ExitCode(procs[p].interactive, code),
                 stdout |-> IF procs[p].interactive THEN <<>> ELSE procs[p].so,
                 stderr |-> IF procs[p].interactive THEN <<>> ELSE procs[p].se])
  /\ lastOp' = Op("exit", procs[p].id, code, p)
  /\ UNCHANGED <<containers, ws, timers, fsFiles, fsDirs, env, idle>>

\* The 'error' event of a spawned shell whose binary cannot be started.  It is
\* emitted on the tick after the execute handler, instead of 'exit'; nothing
\* listens for it, so it is thrown as an uncaught exception and the server
\* process ends.  The state is that of a restarted server: an empty registry,
\* no timers, every connection closed; storage stays.
SpawnError(p) ==
  /\ procs[p].state = "running"
  /\ procs[p].interactive
  /\ lastOp = Op("execute", procs[p].id, 200, p)
  /\ containers' = [id \in IDS |-> 0]
  /\ timers' = <<>>
  /\ ws' = [c \in WS |-> IF ws[c].state \in {"open", "closing"}
                           THEN [ws[c] EXCEPT !.state = "closed"] ELSE ws[c]]
  /\ procs' = [q \in PIDS |-> IF procs[q].state = "running"
                                THEN [procs[q] EXCEPT !.state = IF q = p THEN "failed" ELSE "orphan"]
                                ELSE procs[q]]
  /\ env' = [COLUMNS |-> Unset, LINES |-> Unset]
  /\ idle' = [id \in IDS |-> -1]
  /\ lastOp' = Op("crash", procs[p].id, -1, p)
  /\ UNCHANGED <<heap, inbox, fsFiles, fsDirs>>

\* ---------------------------------------------------------- inbound messages
Msg(json, type, pid, arg) == [json |-> json, type |-> type, processId |-> pid, arg |-> arg]

\* OnMessage statuses: -1 unparsable, -2 no type, -3 no session, -4 a field of
\* the type is missing, 1 a process was reached, 0 otherwise.
\* What a client may send: text that is no JSON, a message without a type,
\* and the four message types with their fields present or missing.
MSGS ==
  {Msg(FALSE, "", "", ""), Msg(TRUE, "", "", ""),
   Msg(TRUE, "file-change", "", ""), Msg(TRUE, "preview-ready", "", ""),
   Msg(TRUE, "terminal-input", "p1", "")}
  \cup {Msg(TRUE, "terminal-input", p, "ls") : p \in PIDS}
  \cup {Msg(TRUE, "terminal-resize", p, g) : p \in PIDS, g \in GEOM \cup {Unset}}

\* The messages sent on the terminal channel: the bad ones, a rebroadcast
\* request, and input and resize for the first process, which is unknown to
\* the session before it is started and after it has exited.
TERM_MSGS ==
  {Msg(FALSE, "", "", ""), Msg(TRUE, "", "", ""), Msg(TRUE, "file-change", "", ""),
   Msg(TRUE, "terminal-input", "p1", ""), Msg(TRUE, "terminal-input", "p1", "ls"),
   Msg(TRUE, "terminal-resize", "p1", "80")}

\* childProcess.resize({cols, rows}): sets the server's own environment.
resize(e, cols, rows) == [COLUMNS |-> cols, LINES |-> rows]

\* A lookup that finds every process that was ever started.
FindProcessAnywhere(id, pid) == procs[pid].state # "none"

\* container.processes.get(processId) of the session registered under id.
FindProcess(id, pid) == pid \in Reg(id).processes

\* A handler that drops the connection of a client that sent a bad message.
AfterMessageDropBad(c, m) ==
  IF ~m.json \/ m.type = "" \/ (m.type \in {"terminal-input", "terminal-resize"} /\ m.arg = "")
    THEN [ws EXCEPT ![c].state = "closing"] ELSE ws

\* The connections after the handler: no branch of it closes the socket.
AfterMessage(c, m) == ws

\* ws.on('message')
OnMessage(c, m) ==
  LET id == ws[c].id IN
  /\ ws[c].state = "open"
  /\ Room(1)
  /\ IF ~m.json
       THEN \* JSON.parse throws; the catch only logs
            /\ lastOp' = Op("message", id, -1, "")
            /\ UNCHANGED <<inbox, procs, env>>
     ELSE IF m.type = ""
       THEN /\ inbox' = Send(inbox, c, Stringify([type |-> "error",
                                          error |-> "Missing type field in message"]))
            /\ lastOp' = Op("message", id, -2, "")
            /\ UNCHANGED <<procs, env>>
     ELSE IF ~Registered(id)
       THEN /\ inbox' = Send(inbox, c, Stringify([type |-> "error",
                                          error |-> "Container not found", previewId |-> id]))
            /\ lastOp' = Op("message", id, -3, "")
            /\ UNCHANGED <<procs, env>>
     ELSE IF m.type = "file-change"
       THEN /\ inbox' = broadcastToContainer(containers, heap, inbox, id,
                          [type |-> "refresh-preview", previewId |-> id])
            /\ lastOp' = Op("message", id, 0, m.type)
            /\ UNCHANGED <<procs, env>>
     ELSE IF m.type = "preview-ready"
       THEN /\ inbox' = broadcastToContainer(containers, heap, inbox, id,
                          [type |-> "preview-ready", previewId |-> id,
                           url |-> <<"preview">> \o id])
            /\ lastOp' = Op("message", id, 0, m.type)
            /\ UNCHANGED <<procs, env>>
     ELSE IF m.arg = ""
       THEN \* terminal-input without input, terminal-resize without cols/rows: logged
            /\ lastOp' = Op("message", id, -4, m.type)
            /\ UNCHANGED <<inbox, procs, env>>
     ELSE IF m.type = "terminal-input"
       THEN LET hit == FindProcess(id, m.processId) IN
            \* every child process, spawned or exec'd, has a stdin pipe
            /\ procs' = IF hit THEN [procs EXCEPT ![m.processId].stdin = TRUE] ELSE procs
            /\ lastOp' = Op("message", id, IF hit THEN 1 ELSE 0, m.type)
            /\ UNCHANGED <<inbox, env>>
     ELSE \* terminal-resize: only a spawned shell has a resize method
          LET hit == /\ FindProcess(id, m.processId)
                     /\ procs[m.processId].interactive
          IN  /\ env' = IF hit THEN resize(env, m.arg, m.arg) ELSE env
              /\ lastOp' = Op("message", id, IF hit THEN 1 ELSE 0, m.type)
              /\ UNCHANGED <<inbox, procs>>
  /\ ws' = AfterMessage(c, m)
  /\ UNCHANGED <<containers, heap, timers, fsFiles, fsDirs, idle>>

\* The client of c takes the oldest message off its transport.
Receive(c) ==
  /\ inbox[c] # <<>>
  /\ inbox' = [inbox EXCEPT ![c] = Tail(@)]
  /\ UNCHANGED <<containers, heap, ws, timers, procs, fsFiles, fsDirs, env, idle, lastOp>>

\* ------------------------------------------------------------ specification
\* The session lifecycle of one workspace: connections come and go, requests
\* create the session, processes run, time passes and cleanup timers fire.
Next ==
  \/ \E c \in WS : AttachNoId(c)
  \/ \E c \in WS : Attach(c, W1)
  \/ \E c \in WS : TransportClose(c)
  \/ \E c \in WS : OnClose(c)
  \/ \E p \in {<<"a">>, None} : Write(W1, p, "x")
  \/ \E p \in {<<"a">>, None} : Read(W1, p)
  \/ Mkdir(W1, <<"a">>, TRUE)
  \/ \E cmd \in {"echo", NoCmd}, a \in ARGS : Execute(W1, cmd, a, Unset)
  \/ \E p \in PIDS, code \in EXITS : ProcExit(p, code)
  \/ IdleTimer
  \/ Tick

Spec == Init /\ [][Next]_vars

\* Two workspaces side by side.  W2 has been set up by Write(W2, <<"a">>, "y")
\* and Attach("c2", W2); every kind of operation then runs on W1, with
\* caller-supplied paths that may climb out of W1's directory.
InitIso ==
  /\ containers = [id \in IDS |-> IF id = W2 THEN 1 ELSE 0]
  /\ heap = <<[createContainer(W2) EXCEPT !.clients = <<"c2">>, !.files = Put(EmptyMap, <<"a">>, "y")]>>
  /\ ws = [c \in WS |-> IF c = "c2" THEN [state |-> "open", id |-> W2]
                        ELSE [state |-> "new", id |-> None]]
  /\ inbox = [c \in WS |-> IF c = "c2"
                 THEN <<Stringify([type |-> "connection-established", previewId |-> W2])>>
                 ELSE <<>>]
  /\ timers = <<>>
  /\ procs = [p \in PIDS |-> [state |-> "none"]]
  /\ fsFiles = Put(EmptyMap, Join(Root, W2 \o <<"a">>), "y")
  /\ fsDirs = {<<>>, Root, Join(Root, W2)}
  /\ env = [COLUMNS |-> Unset, LINES |-> Unset]
  /\ idle = [id \in IDS |-> -1]
  /\ lastOp = Op("attach", W2, 0, "")

NextIso ==
  \/ Attach("c1", W1)
  \/ TransportClose("c1")
  \/ OnClose("c1")
  \/ \E m \in {Msg(TRUE, "file-change", "", ""), Msg(TRUE, "terminal-resize", "p1", "80")} :
       OnMessage("c1", m)
  \/ \E p \in PATHS : Write(W1, p, "x")
  \/ \E p \in PATHS : Mkdir(W1, p, TRUE)
  \/ \E p \in PATHS : Read(W1, p)
  \/ \E p \in PATHS : Remove(W1, p, TRUE)
  \/ \E a \in ARGS : procs["p1"].state = "none" /\ Execute(W1, "/bin/jsh", a, Unset)
  \/ ProcOutput("p1", "stdout")
  \/ ProcExit("p1", 0)
  \/ IdleTimer
  \/ Tick

SpecIso == InitIso /\ [][NextIso]_vars

\* Session creation with caller-supplied ids, one of which climbs out of the
\* persistent root.
NextTrav ==
  \/ \E id \in {W1, WUp} : Attach("c1", id)
  \/ TransportClose("c1")
  \/ OnClose("c1")
  \/ \E id \in {W1, WUp}, p \in PATHS : Write(id, p, "x")
  \/ \E id \in {W1, WUp}, r \in BOOLEAN : Mkdir(id, <<"a">>, r)
  \/ \E id \in {W1, WUp}, a \in ARGS : procs["p1"].state = "none" /\ Execute(id, "echo", a, Unset)
  \/ \E code \in EXITS : ProcExit("p1", code)

SpecTrav == Init /\ [][NextTrav]_vars

\* The broadcast channel of one workspace: two connections, client messages
\* that are rebroadcast, and a process that streams output and exits.
NextBcast ==
  \/ \E c \in WS : Attach(c, W1)
  \/ \E c \in WS : TransportClose(c)
  \/ \E c \in WS : OnClose(c)
  \/ \E c \in WS : Receive(c)
  \/ \E c \in WS, m \in {Msg(TRUE, "file-change", "", ""), Msg(TRUE, "preview-ready", "", "")} :
       OnMessage(c, m)
  \/ \E a \in ARGS : procs["p1"].state = "none" /\ Execute(W1, "/bin/jsh", a, Unset)
  \/ ProcOutput("p1", "stdout")
  \/ ProcExit("p1", 0)

SpecBcast == Init /\ [][NextBcast]_vars

\* Lookups on one workspace whose session is built by a connection or a
\* write and removed again by the cleanup timer.
NextLookup ==
  \/ Attach("c1", W1)
  \/ TransportClose("c1")
  \/ OnClose("c1")
  \/ Write(W1, <<"a">>, "x")
  \/ \E p \in {<<"a">>, <<"b">>, None} : Read(W1, p)
  \/ \E p \in {<<".">>, <<"a">>, <<"b">>, None} : Readdir(W1, p)
  \/ \E p \in {<<"a">>, <<"b">>, None}, r \in BOOLEAN : Remove(W1, p, r)
  \/ Preview(W1)
  \/ \E p \in {<<"a">>, <<"b">>} : PreviewFile(W1, p)
  \/ IdleTimer
  \/ Tick

SpecLookup == Init /\ [][NextLookup]_vars

\* The terminal channel of one workspace: clients send every kind of
\* message while a process is started and exits, and the cleanup timer runs.
NextTerm ==
  \/ \E c \in WS : Attach(c, W1)
  \/ \E c \in WS : TransportClose(c)
  \/ \E c \in WS : OnClose(c)
  \/ \E c \in WS, m \in TERM_MSGS : OnMessage(c, m)
  \/ \E cmd \in CMDS, a \in ARGS : procs["p1"].state = "none" /\ Execute(W1, cmd, a, Unset)
  \/ \E code \in EXITS : ProcExit("p1", code)
  \/ IdleTimer
  \/ Tick

SpecTerm == Init /\ [][NextTerm]_vars

\* Process start and end on one workspace, on a host where the shell may be
\* missing.
NextSpawn ==
  \/ \E c \in WS : Attach(c, W1)
  \/ \E c \in WS : TransportClose(c)
  \/ \E c \in WS : OnClose(c)
  \/ \E cmd \in CMDS, a \in ARGS : procs["p1"].state = "none" /\ Execute(W1, cmd, a, Unset)
  \/ \E st \in STREAMS : ProcOutput("p1", st)
  \/ \E code \in EXITS : ProcExit("p1", code)
  \/ SpawnError("p1")

SpecSpawn == Init /\ [][NextSpawn]_vars

\* The file store of one workspace: files are written, read and removed
\* while a viewer comes and goes.
NextFiles ==
  \/ Attach("c1", W1)
  \/ TransportClose("c1")
  \/ OnClose("c1")
  \/ Receive("c1")
  \/ \E p \in FPATHS, x \in CONTENTS : Write(W1, p, x)
  \/ \E p \in FPATHS : Read(W1, p)
  \/ \E p \in FPATHS, r \in BOOLEAN : Remove(W1, p, r)

SpecFiles == Init /\ [][NextFiles]_vars

\* Write and read of one path while the session is dropped by the cleanup
\* timer and built again by a new connection.  Writes are made only to the
\* first session of the workspace, so that what a later session has cached
\* was read from storage.
NextRound ==
  \/ \E c \in WS : Attach(c, W1)
  \/ \E c \in WS : TransportClose(c)
  \/ \E c \in WS : OnClose(c)
  \/ \E x \in CONTENTS : (heap = <<>> \/ (Len(heap) = 1 /\ Registered(W1))) /\ Write(W1, <<"a">>, x)
  \/ Read(W1, <<"a">>)
  \/ IdleTimer
  \/ Tick

SpecRound == Init /\ [][NextRound]_vars

\* Commands of both kinds are started on one workspace with several
\* argument lists, and its viewer sends input and resize requests to them.
NextExec ==
  \/ Attach("c1", W1)
  \/ \E cmd \in {"/bin/jsh", "/bin/bash", "echo"}, a \in ARGV, t \in {Unset, "80"} :
       Execute(W1, cmd, a, t)
  \/ \E p \in PIDS, t \in {"terminal-input", "terminal-resize"} :
       OnMessage("c1", Msg(TRUE, t, p, IF t = "terminal-input" THEN "ls" ELSE "80"))
  \/ \E p \in PIDS : ProcExit(p, 0)

SpecExec == Init /\ [][NextExec]_vars

\* Connections of two workspaces come and go while requests re-create
\* sessions, under the scheduling Node guarantees: the clock advances and a
\* timer that is due runs.
NextLive ==
  \/ \E c \in WS, id \in {W1, W2} : Attach(c, id)
  \/ \E c \in WS : TransportClose(c)
  \/ \E c \in WS : OnClose(c)
  \/ \E id \in {W1, W2} : Write(id, <<"a">>, "x")
  \/ IdleTimer
  \/ Tick

\* Requests of every kind, complete and with their required field missing,
\* on a workspace that has a viewer and on one nobody has referred to.
NextArgs ==
  \/ Attach("c1", W1)
  \/ Receive("c1")
  \/ Write(W1, <<"a">>, "x")
  \/ Mkdir(W1, <<"d">>, TRUE)
  \/ Readdir(W1, <<"d">>)
  \/ Read(W1, <<"a">>)
  \/ Remove(W1, <<"a">>, FALSE)
  \/ \E a \in ARGS : procs["p1"].state = "none" /\ Execute(W1, "echo", a, Unset)
  \/ ProcExit("p1", 0)
  \/ \E id \in {W1, W2} :
       \/ Write(id, None, "x")
       \/ Write(id, <<"a">>, Undefined)
       \/ Mkdir(id, None, TRUE)
       \/ Readdir(id, None)
       \/ Read(id, None)
       \/ Remove(id, None, FALSE)
       \/ \E a \in ARGS : Execute(id, NoCmd, a, Unset)

SpecArgs == Init /\ [][NextArgs]_vars

\* Viewers of a workspace come and go; later the workspace is only written
\* to: a write runs when no session is registered or the registered one was
\* built by a write, and no viewer attaches once a write has built a session.
\* So the sessions with a cached file are those no connection ever entered.
NextOrphan ==
  \/ \E c \in WS : (\A i \in 1..Len(heap) : DOMAIN heap[i].files = {}) /\ Attach(c, W1)
  \/ \E c \in WS : TransportClose(c)
  \/ \E c \in WS : OnClose(c)
  \/ \E x \in CONTENTS :
       (IF Registered(W1) THEN DOMAIN Reg(W1).files # {} ELSE TRUE) /\ Write(W1, <<"a">>, x)
  \/ Read(W1, <<"a">>)
  \/ \E c \in WS : Receive(c)
  \/ IdleTimer
  \/ Tick

SpecOrphan == Init /\ [][NextOrphan]_vars

\* Shells and commands of one workspace end with status 0, with a nonzero
\* status or by a signal while a viewer watches.
NextExit ==
  \/ Attach("c1", W1)
  \/ TransportClose("c1")
  \/ OnClose("c1")
  \/ Receive("c1")
  \/ \E cmd \in CMDS, a \in ARGS : Execute(W1, cmd, a, Unset)
  \/ \E p \in PIDS, code \in EXITS \cup {Null} : ProcExit(p, code)

SpecExit == Init /\ [][NextExit]_vars

\* Writes to one file of a workspace interleaved with every other kind of
\* handler: reads, removes, a viewer's messages, process callbacks and the
\* cleanup timer.
NextAtomic ==
  \/ Attach("c1", W1)
  \/ TransportClose("c1")
  \/ OnClose("c1")
  \/ Receive("c1")
  \/ \E x \in CONTENTS : Write(W1, <<"a">>, x)
  \/ Read(W1, <<"a">>)
  \/ Remove(W1, <<"a">>, FALSE)
  \/ OnMessage("c1", Msg(TRUE, "file-change", "", ""))
  \/ \E a \in ARGS : procs["p1"].state = "none" /\ Execute(W1, "echo", a, Unset)
  \/ ProcOutput("p1", "stdout")
  \/ ProcExit("p1", 0)
  \/ IdleTimer
  \/ Tick

SpecAtomic == Init /\ [][NextAtomic]_vars

\* The same steps without a scheduling assumption.
SpecLive == Init /\ [][NextLive]_vars

FairSpec == Init /\ [][NextLive]_vars /\ WF_vars(Tick) /\ WF_vars(IdleTimer)

\* ------------------------------------------------------------------ claims
HasRunning(id) == \E p \in Reg(id).processes : procs[p].state = "running"

\* C1: the idle sweep removes a session only when its id has had zero
\* connections continuously for the whole grace period before the removal.
C1_RemovedOnlyAfterFullGrace ==
  (lastOp.op = "idle-timer" /\ lastOp.status = 1) => idle[lastOp.id] >= Grace

\* C2: no step removes a registered session whose connection set is
\* non-empty; in particular a timer firing after a re-attach keeps it.
C2_ConnectedSessionKept ==
  [][\A id \in IDS : (Registered(id) /\ Reg(id).clients # <<>>) => containers'[id] = containers[id]]_vars

C2_Witness ==
  /\ lastOp.op = "idle-timer"
  /\ lastOp.status = 0
  /\ Registered(lastOp.id)
  /\ Reg(lastOp.id).clients # <<>>

\* C3: no step removes a registered session whose processes map holds a
\* running process, even when its connection set is empty.
C3_RunningSessionKept ==
  [][\A id \in IDS : (Registered(id) /\ HasRunning(id)) => containers'[id] = containers[id]]_vars

\* C4: a session whose connection count dropped to zero on a close is
\* eventually removed from the registry, unless a connection attaches again.
C4_IdleSessionEventuallyRemoved ==
  \A id \in IDS :
    (Registered(id) /\ lastOp = Op("close", id, 1, ""))
      ~> (~Registered(id) \/ Reg(id).clients # <<>>)

C4_Witness ==
  /\ lastOp.op = "idle-timer"
  /\ lastOp.status = 1
  /\ ~Registered(lastOp.id)
  /\ idle[lastOp.id] = Grace

\* C5: the sweep changes the registry only: storage and the session objects
\* are untouched, a session built again for the id has the same directory,
\* and its first read of a path returns what storage holds there.
C5_SweepLeavesStorage ==
  [][/\ IdleTimer => (fsFiles' = fsFiles /\ fsDirs' = fsDirs /\ heap' = heap)
     /\ \A id \in IDS : Registered(id)' => Reg(id)'.dir = Join(Root, id)
     /\ \A id \in IDS, p \in PATHS :
          (Read(id, p) /\ Registered(id) /\ p \notin DOMAIN Reg(id).files
             /\ Join(Root, id \o p) \in DOMAIN fsFiles)
          => lastOp' = Op("read", id, 200, fsFiles[Join(Root, id \o p)])]_vars

\* A re-created session read back what an earlier session of the id wrote.
C5_Witness ==
  /\ lastOp.op = "read"
  /\ lastOp.status = 200
  /\ Registered(lastOp.id)
  /\ \E i \in 1..Len(heap) :
       /\ i < containers[lastOp.id]
       /\ heap[i].id = lastOp.id
       /\ \E p \in DOMAIN heap[i].files :
            /\ heap[i].files[p] = lastOp.res
            /\ p \in DOMAIN Reg(lastOp.id).files
            /\ fsFiles[Join(Root, lastOp.id \o p)] = lastOp.res

\* C10: requests for one id from different sources share one session: a
\* step builds at most one session, only for an id that has none, registers
\* it under that id, and a successful attach, write, mkdir or execute changes no
\* session but the registered one.
C10_OneSessionPerId ==
  [][/\ Len(heap') <= Len(heap) + 1
     /\ Len(heap') = Len(heap) + 1 =>
          LET o == heap'[Len(heap')] IN
          /\ ~Registered(o.id)
          /\ containers'[o.id] = Len(heap')
          /\ o.dir \in fsDirs'
     /\ \A id \in IDS : Registered(id) => containers'[id] \in {containers[id], 0}
     /\ (lastOp'.op \in {"attach", "write", "mkdir", "execute"} /\ lastOp'.id # None
           /\ lastOp'.status \in {0, 200}) =>
          /\ containers'[lastOp'.id] # 0
          /\ \A i \in 1..Len(heap) : i # containers'[lastOp'.id] => heap'[i] = heap[i]]_vars

\* One session holds a connection, a cached file and a process.
C10_Witness ==
  /\ Len(heap) = 1
  /\ Registered(W1)
  /\ Reg(W1).clients # <<>>
  /\ Reg(W1).processes # {}
  /\ DOMAIN Reg(W1).files # {}

\* The part of the state that belongs to workspace w: its registry entry and
\* session, the storage under its directory, and what its connections were sent.
SessionOf(w) == IF Registered(w) THEN <<containers[w], Reg(w)>> ELSE <<0>>

StorageOf(w) == <<FilesUnder(fsFiles, Join(Root, w)), DirsUnder(fsDirs, Join(Root, w))>>

EventsOf(w) == [c \in {d \in WS : ws[d].id = w} |-> inbox[c]]

\* C6: an operation on workspace w1 leaves every other workspace w2 alone:
\* its session, the storage under its directory and the events delivered to
\* its connections do not change.
C6_WorkspacesIsolated ==
  [][\A w \in {W1, W2} : lastOp'.id # w =>
       /\ SessionOf(w)' = SessionOf(w)
       /\ StorageOf(w)' = StorageOf(w)
       /\ EventsOf(w)' = EventsOf(w)]_vars

\* C7: every session's directory is a strict descendant of the root /data.
C7_DirectoryUnderRoot ==
  \A i \in 1..Len(heap) : StrictlyUnder(Root, heap[i].dir)

\* The connections broadcastToContainer(id, ...) must reach: those in the
\* session's set whose transport is open.
OpenClients(id) ==
  IF Registered(id) THEN {c \in Range(Reg(id).clients) : ws[c].state = "open"} ELSE {}

\* Exactly the connections in `to` are sent `msg`, once; nobody else gets anything.
DeliveredOnce(to, msg) ==
  \A d \in WS : inbox'[d] = IF d \in to THEN Append(inbox[d], msg) ELSE inbox[d]

\* C8: a broadcast delivers the same serialized event exactly once to every
\* connection of the session whose transport is open and nothing to the others.
C8_BroadcastToOpenOnly ==
  [][/\ \A c \in WS :
          /\ OnMessage(c, Msg(TRUE, "file-change", "", "")) =>
               DeliveredOnce(OpenClients(ws[c].id),
                             Stringify([type |-> "refresh-preview", previewId |-> ws[c].id]))
          /\ OnMessage(c, Msg(TRUE, "preview-ready", "", "")) =>
               DeliveredOnce(OpenClients(ws[c].id),
                             Stringify([type |-> "preview-ready", previewId |-> ws[c].id,
                                        url |-> <<"preview">> \o ws[c].id]))
     /\ \A p \in PIDS, code \in EXITS :
          ProcExit(p, code) =>
            \E msg \in {inbox'[d][Len(inbox'[d])] : d \in {e \in WS : inbox'[e] # <<>>}} \cup {<<>>} :
              /\ msg # <<>> => /\ Field(msg, "type") = "process-completed"
                               /\ Field(msg, "processId") = p
              /\ DeliveredOnce(IF msg = <<>> THEN {} ELSE OpenClients(procs[p].id), msg)
              /\ msg = <<>> => OpenClients(procs[p].id) = {}]_vars

LastIs(c, type) == inbox[c] # <<>> /\ Field(inbox[c][Len(inbox[c])], "type") = type

\* A broadcast reached an open connection and skipped one whose transport
\* had closed but which was still in the set.
C8_Witness ==
  /\ lastOp = Op("message", W1, 0, "file-change")
  /\ \E c, d \in Range(Reg(W1).clients) :
       /\ ws[c].state = "closing"
       /\ ~LastIs(c, "refresh-preview")
       /\ ws[d].state = "open"
       /\ LastIs(d, "refresh-preview")

\* What a step added to the end of c's messages, <<>> if it added nothing.
Added(c) ==
  IF Len(inbox'[c]) > Len(inbox[c])
    THEN SubSeq(inbox'[c], Len(inbox[c]) + 1, Len(inbox'[c]))
    ELSE <<>>

\* No connection holds a later output chunk of a process ahead of an earlier one.
ChunksInOrder ==
  \A c \in WS : \A i, j \in 1..Len(inbox[c]) :
    (/\ i < j
     /\ Field(inbox[c][i], "type") = "process-output"
     /\ Field(inbox[c][j], "type") = "process-output"
     /\ Field(inbox[c][i], "processId") = Field(inbox[c][j], "processId"))
    => ~(Field(inbox[c][i], "output") = Script[2] /\ Field(inbox[c][j], "output") = Script[1])

\* C9: events reach every connection in the order they were broadcast: a
\* step only adds to the end of what a connection holds (or its client takes
\* the oldest), connections that are sent something in a step are sent the
\* same events in the same order, and output chunks stay in order.
C9_BroadcastOrder ==
  [][/\ \A c \in WS :
          \/ inbox'[c] = inbox[c] \o Added(c)
          \/ inbox'[c] = Tail(inbox[c])
     /\ \A c, d \in WS : (Added(c) # <<>> /\ Added(d) # <<>>) => Added(c) = Added(d)
     /\ ChunksInOrder']_vars

HoldsBothChunks(c) ==
  \E i, j \in 1..Len(inbox[c]) :
    /\ i < j
    /\ Field(inbox[c][i], "output") = Script[1]
    /\ Field(inbox[c][j], "output") = Script[2]

\* Both connections hold the first chunk of a process ahead of its second.
C9_Witness == \A c \in WS : HoldsBothChunks(c)

\* C11: read, readdir, remove and preview serving on an id that is absent
\* from the registry answer 404 and change nothing: no session is built, the
\* registry and storage stay as they are and no event is sent, also when the
\* workspace directory is still on storage after a cleanup.
C11_AbsentLookupNotFound ==
  [][\A id \in IDS, p \in {<<".">>, <<"a">>, <<"b">>} :
       (/\ ~Registered(id)
        /\ \/ Read(id, p)
           \/ Readdir(id, p)
           \/ \E r \in BOOLEAN : Remove(id, p, r)
           \/ Preview(id)
           \/ PreviewFile(id, p))
       => /\ lastOp'.status = 404
          /\ UNCHANGED <<containers, heap, inbox, timers, fsFiles, fsDirs>>]_vars

\* A read was answered 404 although the swept workspace's file is on storage.
C11_Witness ==
  /\ lastOp = Op("read", W1, 404, "")
  /\ ~Registered(W1)
  /\ \E i \in 1..Len(heap) : heap[i].id = W1
  /\ Join(Root, W1 \o <<"a">>) \in DOMAIN fsFiles

\* The last message c was sent in the next state is of this type and process.
GetsLast(c, type, p) ==
  /\ inbox'[c] # <<>>
  /\ Field(inbox'[c][Len(inbox'[c])], "type") = type
  /\ Field(inbox'[c][Len(inbox'[c])], "processId") = p

InSomeMap(hp, p) == \E i \in 1..Len(hp) : p \in hp[i].processes

IsTerminalMsg(m) == m.json /\ m.type \in {"terminal-input", "terminal-resize"} /\ m.arg # ""

\* C12: a process handle enters the processes map of the session that
\* started it in the execute step, stays there while the process runs, leaves
\* it in the step that broadcasts process-completed, never comes back, and a
\* terminal-input or terminal-resize for its id after that changes nothing.
C12_HandleLifecycle ==
  [][\A p \in PIDS :
       /\ procs[p].state = "running" => p \in heap[procs[p].cont].processes
       /\ (procs[p].state = "none" /\ procs'[p].state # "none") =>
            /\ procs'[p].state = "running"
            /\ p \in heap'[procs'[p].cont].processes
            /\ lastOp' = Op("execute", procs'[p].id, 200, p)
       /\ (procs[p].state = "running" /\ procs'[p].state # "running") =>
            /\ procs'[p].state = "exited"
            /\ ~InSomeMap(heap', p)
            /\ \A c \in OpenClients(procs[p].id) : GetsLast(c, "process-completed", p)
       /\ procs[p].state = "exited" => (procs'[p].state = "exited" /\ ~InSomeMap(heap', p))
       /\ \A c \in WS, m \in MSGS :
            (procs[p].state = "exited" /\ IsTerminalMsg(m) /\ m.processId = p /\ OnMessage(c, m))
            => UNCHANGED <<containers, heap, ws, inbox, timers, procs, fsFiles, fsDirs, env>>]_vars

\* Input arrived for a process that had exited, and reached nothing.
C12_Witness ==
  /\ lastOp = Op("message", W1, 0, "terminal-input")
  /\ procs["p1"].state = "exited"
  /\ procs["p2"].state = "none"
  /\ ~procs["p1"].stdin
  /\ ~InSomeMap(heap, "p1")

\* C13: when a process that was started stops running, for whatever reason,
\* its handle leaves the processes map and every open connection of the
\* session is sent process-completed for it, with a nonzero exit code when
\* the process never started.
C13_FailedStartReported ==
  [][\A p \in PIDS :
       (procs[p].state = "running" /\ procs'[p].state # "running") =>
         /\ ~InSomeMap(heap', p)
         /\ \A c \in OpenClients(procs[p].id) :
              /\ GetsLast(c, "process-completed", p)
              /\ procs'[p].state = "failed" => Field(inbox'[c][Len(inbox'[c])], "exitCode") # 0]_vars

\* How many process-completed events for p the connection c holds.
Completions(c, p) ==
  Cardinality({i \in 1..Len(inbox[c]) :
                 /\ Field(inbox[c][i], "type") = "process-completed"
                 /\ Field(inbox[c][i], "processId") = p})

\* C14: the exit of a command run with exec sends one process-completed
\* event, carrying its exit code, to every open connection of the session
\* registered under the id and to nobody else; with no open connection or no
\* registered session it sends nothing and still completes; no connection
\* ever holds two completions of one process.
C14_OneCompletion ==
  [][/\ \A p \in PIDS, code \in EXITS :
          (ProcExit(p, code) /\ ~procs[p].interactive) =>
            /\ procs'[p].state = "exited"
            /\ DeliveredOnce(OpenClients(procs[p].id),
                 Stringify([type |-> "process-completed", previewId |-> procs[p].id,
                            processId |-> p, exitCode |-> code,
                            stdout |-> procs[p].so, stderr |-> procs[p].se]))
     /\ \A c \in WS, p \in PIDS : Completions(c, p)' <= 1]_vars

\* A command exited with code 0 after its session had left the registry.
C14_Witness ==
  /\ lastOp.op = "exit"
  /\ lastOp.status = 0
  /\ ~Registered(lastOp.id)
  /\ procs[lastOp.res].state = "exited"
  /\ ~procs[lastOp.res].interactive
  /\ \A c \in WS : Completions(c, lastOp.res) = 0

\* C15: a chunk of output of a process is sent once, as one process-output
\* event with the process id and the stream name, to every open connection of
\* the session, and to nobody else.
C15_OneEventPerChunk ==
  [][\A p \in PIDS, st \in STREAMS :
       ProcOutput(p, st) =>
         DeliveredOnce(OpenClients(procs[p].id),
           Stringify([type |-> "process-output", previewId |-> procs[p].id, processId |-> p,
                      output |-> Script[Chunks(p) + 1], stream |-> st]))]_vars

\* C16: a terminal-input or terminal-resize whose processId is not in the
\* processes map of the sender's session changes no session, process,
\* registry or environment state and sends nothing to any connection.
C16_UnknownProcessNoOp ==
  [][\A c \in WS, m \in MSGS :
       (/\ IsTerminalMsg(m)
        /\ ws[c].state = "open"
        /\ Registered(ws[c].id)
        /\ m.processId \notin Reg(ws[c].id).processes
        /\ OnMessage(c, m))
       => UNCHANGED <<containers, heap, ws, inbox, timers, procs, fsFiles, fsDirs, env>>]_vars

\* A resize arrived while no process had been started.
C16_Witness ==
  /\ lastOp = Op("message", W1, 0, "terminal-resize")
  /\ \A p \in PIDS : procs[p].state = "none"
  /\ Registered(W1)
  /\ env = [COLUMNS |-> Unset, LINES |-> Unset]
  /\ \A c \in WS : \A i \in 1..Len(inbox[c]) : Field(inbox[c][i], "type") # "error"

\* C17: a message that cannot be parsed, and a parsed message without a
\* type, each make the handler send exactly one error event, to the sender
\* and to no other connection.
C17_ErrorToSenderOnly ==
  [][\A c \in WS, m \in MSGS :
       ((~m.json \/ m.type = "") /\ OnMessage(c, m)) =>
         /\ Len(inbox'[c]) = Len(inbox[c]) + 1
         /\ SubSeq(inbox'[c], 1, Len(inbox[c])) = inbox[c]
         /\ Field(inbox'[c][Len(inbox'[c])], "type") = "error"
         /\ \A d \in WS \ {c} : inbox'[d] = inbox[d]]_vars

\* Unparsable, without a type, or without a field its type needs.
Malformed(m) ==
  \/ ~m.json
  \/ m.type = ""
  \/ (m.type \in {"terminal-input", "terminal-resize"} /\ m.arg = "")

\* C18: a malformed message leaves its connection established: the socket
\* stays open and in the connection set of its session, which stays
\* registered, so that later broadcasts reach it and its later messages are
\* handled.
C18_MalformedKeepsConnection ==
  [][\A c \in WS, m \in MSGS :
       (Malformed(m) /\ OnMessage(c, m)) =>
         /\ ws'[c] = ws[c]
         /\ ws'[c].state = "open"
         /\ containers'[ws[c].id] # 0
         /\ c \in Range(heap'[containers'[ws[c].id]].clients)
         /\ c \in OpenClients(ws[c].id)']_vars

\* The only connection was sent an error for a bad message, then sent a
\* well-formed message that was handled, and received the broadcast it caused.
C18_Witness ==
  \E c \in WS :
    /\ \A d \in WS \ {c} : ws[d].state = "new"
    /\ ws[c].state = "open"
    /\ lastOp = Op("message", W1, 0, "file-change")
    /\ Len(inbox[c]) = 3
    /\ Field(inbox[c][2], "type") = "error"
    /\ Field(inbox[c][3], "type") = "refresh-preview"

HasField(msg, k) == k \in {msg[i][1] : i \in 1..Len(msg)}

\* C19: an attaching connection joins the session registered under its id,
\* built if there was none, and is sent one connection-established event,
\* which no other connection gets and whose clientCount is the size of the
\* session's connection set with the new connection in it.
C19_AckCarriesClientCount ==
  [][\A c \in WS, id \in IDS :
       Attach(c, id) =>
         /\ containers'[id] # 0
         /\ c \in Range(heap'[containers'[id]].clients)
         /\ Len(inbox'[c]) = Len(inbox[c]) + 1
         /\ \A d \in WS \ {c} : inbox'[d] = inbox[d]
         /\ LET ack == inbox'[c][Len(inbox'[c])] IN
            /\ Field(ack, "type") = "connection-established"
            /\ HasField(ack, "clientCount")
            /\ Field(ack, "clientCount") = Len(heap'[containers'[id]].clients)]_vars

\* C20: the close handler takes the connection out of its session's set and
\* arms one cleanup timer for the id exactly when the set is then empty; with
\* other connections left it arms none.
C20_CloseArmsTimerOnEmpty ==
  [][\A c \in WS :
       OnClose(c) =>
         LET id == ws[c].id IN
         /\ containers[id] # 0
         /\ containers' = containers
         /\ c \notin Range(Reg(id).clients')
         /\ \A d \in WS \ {c} : d \in Range(Reg(id).clients') <=> d \in Range(Reg(id).clients)
         /\ IF Reg(id).clients' = <<>>
              THEN timers' = Append(timers, [id |-> id, left |-> Grace])
              ELSE timers' = timers]_vars

\* A connection closed while another stayed, and no timer is pending.
C20_Witness ==
  /\ lastOp = Op("close", W1, 0, "")
  /\ Reg(W1).clients # <<>>
  /\ timers = <<>>
  /\ \E c \in WS : ws[c].state = "closed" /\ ws[c].id = W1

\* C21: for every registered session, each path in its file cache resolves
\* to a file that exists on storage and holds the cached content.
C21_CacheInSync ==
  \A id \in IDS :
    Registered(id) =>
      \A p \in DOMAIN Reg(id).files :
        /\ Join(Reg(id).dir, p) \in DOMAIN fsFiles
        /\ fsFiles[Join(Reg(id).dir, p)] = Reg(id).files[p]

\* The storage path a relative path p of workspace id resolves to.
Target(id, p) == Join(Join(Root, id), p)

\* The cache of the session registered for id, empty when there is none.
CacheOf(id) == IF Registered(id) THEN Reg(id).files ELSE EmptyMap

\* writeFileSync or the mkdirSync before it must fail: a component of the
\* directory is a file, or the target is a directory.
WriteMustFail(id, p) ==
  \/ \E q \in Prefixes(Dirname(Target(id, p))) : q \in DOMAIN fsFiles
  \/ Target(id, p) \in fsDirs

LatestCached(id, p) ==
  LET at == {i \in 1..Len(heap) : heap[i].id = id /\ p \in DOMAIN heap[i].files}
  IN  IF at = {} THEN 0 ELSE CHOOSE i \in at : \A j \in at : j <= i

\* C23: a successful write of x to p leaves x both in the cache and on
\* storage; a read of p answers the cache entry when there is one and the
\* stored content otherwise; dropping a session and building it again does
\* not touch storage, which always holds what the newest cache entry of the
\* path holds.  So a read after a write returns what was written, from the
\* cache or, when the session was swept and re-created, from storage.
C23_WriteReadRoundTrip ==
  [][\A p \in FPATHS :
       /\ \A x \in CONTENTS :
            (Write(W1, p, x) /\ lastOp'.status = 200) =>
              /\ p \in DOMAIN CacheOf(W1)' /\ CacheOf(W1)'[p] = x
              /\ Target(W1, p) \in DOMAIN fsFiles' /\ fsFiles'[Target(W1, p)] = x
       /\ (Read(W1, p) /\ Registered(W1)) =>
            /\ p \in DOMAIN CacheOf(W1) =>
                 (lastOp' = Op("read", W1, 200, CacheOf(W1)[p]) /\ heap' = heap)
            /\ (p \notin DOMAIN CacheOf(W1) /\ Target(W1, p) \in DOMAIN fsFiles) =>
                 lastOp' = Op("read", W1, 200, fsFiles[Target(W1, p)])
       /\ fsFiles' # fsFiles => lastOp'.op = "write"
       /\ LatestCached(W1, p)' # 0 =>
            /\ Target(W1, p) \in DOMAIN fsFiles'
            /\ fsFiles'[Target(W1, p)] = heap'[LatestCached(W1, p)'].files[p]]_vars

\* The second session of the workspace, which was never written to, answered
\* a read with what the first session had written.
C23_Witness ==
  /\ Len(heap) = 2
  /\ containers[W1] = 2
  /\ lastOp.op = "read"
  /\ lastOp.status = 200
  /\ <<"a">> \in DOMAIN heap[1].files
  /\ heap[1].files[<<"a">>] = lastOp.res
  /\ <<"a">> \in DOMAIN heap[2].files

\* C24: a read of a path that is cached answers the cached content and
\* changes nothing; a read of a path that is not cached but stored answers
\* the stored content and caches it under the path; a read answers 404, with
\* the cache unchanged, exactly when the path is neither cached nor on storage.
C24_ReadThroughCache ==
  [][\A p \in FPATHS :
       (Read(W1, p) /\ Registered(W1)) =>
         /\ fsFiles' = fsFiles /\ fsDirs' = fsDirs /\ inbox' = inbox
         /\ p \in DOMAIN CacheOf(W1) =>
              (lastOp' = Op("read", W1, 200, CacheOf(W1)[p]) /\ heap' = heap)
         /\ (p \notin DOMAIN CacheOf(W1) /\ Target(W1, p) \in DOMAIN fsFiles) =>
              /\ lastOp' = Op("read", W1, 200, fsFiles[Target(W1, p)])
              /\ CacheOf(W1)' = Put(CacheOf(W1), p, fsFiles[Target(W1, p)])
         /\ (lastOp'.status = 404) <=>
              (p \notin DOMAIN CacheOf(W1) /\ ~Exists(fsFiles, fsDirs, Target(W1, p)))
         /\ lastOp'.status = 404 => heap' = heap]_vars

\* A read of a path that was never written was answered 404 by a session
\* whose cache stayed empty.
C24_Witness ==
  /\ lastOp = Op("read", W1, 404, "")
  /\ Registered(W1)
  /\ Reg(W1).files = EmptyMap
  /\ fsFiles = EmptyMap

\* C25: a remove of a target that is not on storage answers 404 and a
\* non-recursive remove of a non-empty directory fails; both leave storage
\* and cache alone and send nothing.  Any other remove deletes the target
\* with all below it and nothing else, evicts the cache entry of the path and
\* sends one file-change event with the path to every open connection.
C25_RemoveContract ==
  [][\A p \in FPATHS, r \in BOOLEAN :
       (Remove(W1, p, r) /\ Registered(W1)) =>
         LET t == Target(W1, p)
             missing == ~Exists(fsFiles, fsDirs, t)
             blocked == t \in fsDirs /\ ~r /\ Below(fsFiles, fsDirs, t) # {}
         IN  /\ missing => lastOp'.status = 404
             /\ (~missing /\ blocked) => lastOp'.status = 500
             /\ (missing \/ blocked) =>
                  UNCHANGED <<fsFiles, fsDirs, heap, inbox>>
             /\ (~missing /\ ~blocked) =>
                  /\ lastOp'.status = 200
                  /\ DOMAIN fsFiles' = {q \in DOMAIN fsFiles : ~Under(t, q)}
                  /\ \A q \in DOMAIN fsFiles' : fsFiles'[q] = fsFiles[q]
                  /\ fsDirs' = {q \in fsDirs : ~Under(t, q)}
                  /\ CacheOf(W1)' = Drop(CacheOf(W1), p)
                  /\ DeliveredOnce(OpenClients(W1),
                       Stringify([type |-> "file-change", previewId |-> W1, path |-> p]))]_vars

\* A non-recursive remove of a directory that holds a file was refused.
C25_Witness ==
  /\ lastOp = Op("rm", W1, 500, "")
  /\ Target(W1, <<"d">>) \in fsDirs
  /\ Target(W1, <<"d", "f">>) \in DOMAIN fsFiles

\* C26: /bin/jsh is started as the substitute shell with every "--osc"
\* dropped and the other arguments in their order; any other command is
\* started under its own name with the argument list it was requested with;
\* the process is interactive exactly when the command started is the
\* substitute shell.  All of it is a function of the command and arguments.
C26_CommandNormalization ==
  [][\A cmd \in {"/bin/jsh", "/bin/bash", "echo"}, a \in ARGV, t \in {Unset, "80"} :
       (Execute(W1, cmd, a, t) /\ lastOp'.status = 200) =>
         LET r == procs'[lastOp'.res] IN
         /\ cmd = "/bin/jsh" =>
              (r.cmd = "/bin/bash" /\ r.argv = SelectSeq(a, LAMBDA w : w # "--osc"))
         /\ cmd # "/bin/jsh" => (r.cmd = cmd /\ r.argv = a)
         /\ r.interactive <=> (r.cmd = "/bin/bash")]_vars

\* C27: a file-change message from a client adds exactly one refresh-preview
\* event, and a preview-ready message exactly one preview-ready event, to
\* every open connection of the sender's session, the sender among them, and
\* to nobody else; storage, the file cache, the processes, the connection
\* sets and the registry stay as they were.
C27_RebroadcastOnly ==
  [][\A c \in WS, t \in {"file-change", "preview-ready"} :
       OnMessage(c, Msg(TRUE, t, "", "")) =>
         LET id == ws[c].id
             ev == IF t = "file-change"
                     THEN Stringify([type |-> "refresh-preview", previewId |-> id])
                     ELSE Stringify([type |-> "preview-ready", previewId |-> id,
                                     url |-> <<"preview">> \o id])
         IN  /\ c \in OpenClients(id)
             /\ \A d \in OpenClients(id) : Added(d) = <<ev>>
             /\ \A d \in WS \ OpenClients(id) : Added(d) = <<>> /\ inbox'[d] = inbox[d]
             /\ UNCHANGED <<fsFiles, fsDirs, heap, containers, procs, ws, timers, env>>]_vars

\* Two open connections of one workspace both hold the preview-ready event
\* that one of them asked for.
C27_Witness ==
  /\ lastOp = Op("message", W1, 0, "preview-ready")
  /\ \A c \in WS : ws[c].state = "open" /\ ws[c].id = W1 /\ LastIs(c, "preview-ready")

\* The sessions, registered or not, whose connection set holds c.
Members(c) == {i \in 1..Len(heap) : c \in Range(heap[i].clients)}

\* C28: a connection is in the connection set of at most one session, which
\* is the registered session of the workspace id it attached with; it enters
\* a set only by its attach and leaves it only by its close, and no other
\* step changes a connection set.
C28_OneSessionPerConnection ==
  /\ [](\A c \in WS :
          /\ Cardinality(Members(c)) <= 1
          /\ \A i \in Members(c) : heap[i].id = ws[c].id /\ containers[ws[c].id] = i)
  /\ [][\A c \in WS :
          /\ (\E id \in {W1, W2} : Attach(c, id)) => Members(c)' = {containers'[ws'[c].id]}
          /\ OnClose(c) => Members(c)' = {}
          /\ Members(c)' # Members(c) =>
               \/ Members(c) = {} /\ ws[c].state = "new" /\ lastOp' = Op("attach", ws'[c].id, 0, "")
               \/ Members(c)' = {} /\ ws[c].state = "closing" /\ lastOp'.op = "close"]_vars

\* c1 is in the second session of a workspace whose first session was swept
\* after c2 had left it.
C28_Witness ==
  /\ ws["c2"].state = "closed"
  /\ Members("c2") = {}
  /\ \E i, j \in 1..Len(heap) :
       i < j /\ heap[i].id = heap[j].id /\ Members("c1") = {j}

\* C29: process-completed is the last event of a process: no connection is
\* sent a process-output event of a process after the process-completed
\* event of that process, whether the process was spawned or exec'd.
C29_CompletedIsTerminal ==
  \A c \in WS : \A i, j \in 1..Len(inbox[c]) :
    (/\ i < j
     /\ Field(inbox[c][i], "type") = "process-completed"
     /\ Field(inbox[c][j], "type") = "process-output")
    => Field(inbox[c][i], "processId") # Field(inbox[c][j], "processId")

\* C30: only an interactive process takes input and resize: a terminal-input
\* for a running process that is not interactive writes nothing to its stdin,
\* a terminal-resize for such a process changes no state, and neither sends
\* anything to any connection.
C30_OnlyInteractiveTakesInput ==
  [][\A c \in WS, p \in PIDS, t \in {"terminal-input", "terminal-resize"} :
       (/\ procs[p].state = "running"
        /\ ~procs[p].interactive
        /\ OnMessage(c, Msg(TRUE, t, p, IF t = "terminal-input" THEN "ls" ELSE "80")))
       => /\ procs'[p].stdin = procs[p].stdin
          /\ t = "terminal-resize" =>
               UNCHANGED <<containers, heap, ws, timers, procs, fsFiles, fsDirs, env>>
          /\ inbox' = inbox]_vars

\* C31: a running process started for a workspace id is in the processes map
\* of the session registered under that id, also after the cleanup timer
\* removed the session and a request built a new one.
C31_RunningProcessReachable ==
  \A p \in PIDS :
    procs[p].state = "running" =>
      Registered(procs[p].id) /\ p \in Reg(procs[p].id).processes

\* C32: a write is one step: the step that stores x under p also caches x
\* and sends the file-change event to every open connection of the session,
\* so between any two handlers a cached path whose file is on storage holds
\* the stored content, and a read never answers a cache entry that differs
\* from the stored file.
C32_WriteIsAtomic ==
  /\ [](\A p \in DOMAIN CacheOf(W1) :
          Target(W1, p) \in DOMAIN fsFiles => CacheOf(W1)[p] = fsFiles[Target(W1, p)])
  /\ [][/\ \A x \in CONTENTS :
             (Write(W1, <<"a">>, x) /\ fsFiles' # fsFiles) =>
               /\ lastOp'.status = 200
               /\ fsFiles'[Target(W1, <<"a">>)] = x
               /\ CacheOf(W1)'[<<"a">>] = x
               /\ \A d \in WS :
                    Added(d) = IF d \in OpenClients(W1)
                                 THEN <<Stringify([type |-> "file-change", previewId |-> W1,
                                                   path |-> <<"a">>])>>
                                 ELSE <<>>
        /\ (Read(W1, <<"a">>) /\ lastOp'.status = 200 /\ Target(W1, <<"a">>) \in DOMAIN fsFiles) =>
             lastOp'.res = fsFiles[Target(W1, <<"a">>)]]_vars

\* A read answered the second content written to the file while its viewer
\* held the events of both writes and a process of the workspace was running.
C32_Witness ==
  /\ lastOp = Op("read", W1, 200, "y")
  /\ fsFiles[Target(W1, <<"a">>)] = "y"
  /\ procs["p1"].state = "running"
  /\ Len(inbox["c1"]) >= 2
  /\ \A i \in 1..Len(inbox["c1"]) : Field(inbox["c1"][i], "type") = "file-change"

\* C33: a request without a required field (write without path or without
\* content; mkdir, readdir, read or remove without path; execute without
\* command) is answered 400 and nothing else happens: the registry, every
\* session, storage, the processes and what every connection was sent stay
\* as they were, so no session is built for an id that has none.
C33_MissingFieldRejected ==
  [][\A id \in {W1, W2} :
       (\/ Write(id, None, "x")
        \/ Write(id, <<"a">>, Undefined)
        \/ Mkdir(id, None, TRUE)
        \/ Readdir(id, None)
        \/ Read(id, None)
        \/ Remove(id, None, FALSE)
        \/ \E a \in ARGS : Execute(id, NoCmd, a, Unset))
       => /\ lastOp'.status = 400
          /\ lastOp'.id = id
          /\ UNCHANGED <<containers, heap, ws, inbox, timers, procs, fsFiles, fsDirs, env>>]_vars

\* A write without content was rejected for a workspace that no request or
\* connection had referred to, while another workspace had a session and a
\* stored file.
C33_Witness ==
  /\ lastOp = Op("write", W2, 400, "")
  /\ ~Registered(W2)
  /\ \A i \in 1..Len(heap) : heap[i].id # W2
  /\ Join(Root, W2) \notin fsDirs
  /\ Registered(W1)
  /\ Target(W1, <<"a">>) \in DOMAIN fsFiles

\* The connection is attached and its close event has not been handled.
Established(c) == ws[c].state \in {"open", "closing"}

\* C34: while a connection is established, a session is registered under
\* its workspace id and the connection is in that session's connection set;
\* so the message handler never answers 'Container not found' and the close
\* handler never finds the session missing.
C34_EstablishedHasSession ==
  /\ \A c \in WS :
       Established(c) => (Registered(ws[c].id) /\ c \in Range(Reg(ws[c].id).clients))
  /\ ~(lastOp.op = "message" /\ lastOp.status = -3)
  /\ ~(lastOp.op = "close" /\ lastOp.status = -1)
  /\ \A c \in WS : \A i \in 1..Len(inbox[c]) :
       Field(inbox[c][i], "error") # "Container not found"

\* The cleanup timer armed when the first viewer left fired while a second
\* viewer was attached, and left the session in place.
C34_Witness ==
  /\ lastOp = Op("idle-timer", W1, 0, "")
  /\ \E c, d \in WS :
       /\ ws[c].state = "closed" /\ ws[c].id = W1
       /\ ws[d].state = "open" /\ ws[d].id = W1
       /\ d \in Range(Reg(W1).clients)

\* C35: the output and completion events of a process go only to connections
\* of the session object the process was started under; the connections of
\* a later session of the same workspace id are sent none of them.
C35_EventsStayWithOwnSession ==
  [][\A p \in PIDS, d \in WS :
       (/\ \/ \E code \in EXITS : ProcExit(p, code)
           \/ \E st \in STREAMS : ProcOutput(p, st)
        /\ Added(d) # <<>>)
       => d \in Range(heap[procs[p].cont].clients)]_vars

\* C36: a terminal-resize on one process does not reach the processes
\* started after it: a process started by a request without terminal
\* geometry gets the COLUMNS the server itself was started with (unset).
C36_ResizeStaysWithProcess ==
  [][\A cmd \in {"/bin/jsh", "/bin/bash", "echo"}, a \in ARGV :
       (Execute(W1, cmd, a, Unset) /\ lastOp'.status = 200) =>
         procs'[lastOp'.res].cols = Unset]_vars

\* C37: cleanup timers are armed by closes only, so a session that a write
\* built and that no connection ever entered stays registered whatever time
\* passes: every session object with a cached file (under SpecOrphan, the
\* sessions built by a write) is the one registered under its id.
C37_RequestBuiltSessionStays ==
  \A i \in 1..Len(heap) :
    DOMAIN heap[i].files # {} => containers[heap[i].id] = i

\* C38: process-completed carries exitCode 0 only for a process that ended
\* with status 0: when a process ends with a nonzero status or by a signal,
\* the event sent to the viewers has an exitCode other than 0, for spawned
\* shells and for exec'd commands.
C38_ZeroOnlyOnSuccess ==
  [][\A p \in PIDS, code \in EXITS \cup {Null}, d \in WS :
       (ProcExit(p, code) /\ code # 0 /\ Added(d) # <<>>) =>
         Field(Added(d)[1], "exitCode") # 0]_vars

\* C39: a file operation on workspace w1 touches storage only inside the
\* directory of w1: every file it creates or changes and every directory it
\* creates lies in /data/w1 or below it (the ancestors of /data/w1, which
\* building the session creates, aside), whatever relative path it is given.
C39_PathsStayInside ==
  [][lastOp'.id = W1 =>
       /\ \A q \in DOMAIN fsFiles' :
            (q \notin DOMAIN fsFiles \/ fsFiles'[q] # fsFiles[q]) => Under(Join(Root, W1), q)
       /\ \A q \in fsDirs' \ fsDirs :
            Under(Join(Root, W1), q) \/ q \in Prefixes(Join(Root, W1))]_vars

\* C40: after a successful remove of a path, a read of that path or of a
\* path beneath it answers 404 until the path is written again.  Under
\* SpecFiles a path is missing from storage exactly when it was never
\* written or a remove took it away since its last write, so: a read of a
\* path that is neither a file nor a directory on storage answers 404.
C40_RemovedPathNotFound ==
  [][\A q \in FPATHS :
       (/\ Registered(W1)
        /\ Target(W1, q) \notin DOMAIN fsFiles
        /\ Target(W1, q) \notin fsDirs
        /\ Read(W1, q))
       => lastOp'.status = 404]_vars

====
